---- MODULE Spec2Model ----
\* State-machine model of the llm-observatory adapter core (BaseLLM and the
\* OpenAI / Anthropic / Gemini adapters), the cost table of the settings
\* module and the history buffer of the Streamlit interface.
\*
\* Units.  Money is kept in integers: the cost table is in micro-dollars per
\* 1000 tokens (0.0005 $ = 500), so tokens * rate is a cost in nano-dollars
\* and round(x, 6) is a rounding of nano-dollars to micro-dollars.  Time is
\* in whole seconds.  tokens_per_second is kept in hundredths (round(x, 2)).
\* Python rounds half-to-even; binary floating point error is not modelled.
EXTENDS Integers, Sequences, FiniteSets, TLC

(***************************************************************************)
(* Bounds of the model                                                     *)
(***************************************************************************)
MaxInst == 2
MaxRequests == 2
MaxCtor == 2
MaxStores == 12
MaxTokens == 5
MaxPriced == 1
MaxInfoRequests == 1
MaxInvocations == 1
MaxLiveRequests == 2
MaxConcurrent == 2
MaxSubmissions == 12

(***************************************************************************)
(* Program constants                                                       *)
(***************************************************************************)
RetryAttempts == 3
\* LLMConfig.DEFAULT_PARAMETERS; the temperature is in hundredths.
DEFAULT_PARAMETERS ==
  [temperature |-> 70, max_tokens |-> 500, timeout |-> 30,
   retry_attempts |-> RetryAttempts]
HistoryCap == 10
PromptPreview == 100

NoModel == "None"

Providers == {"openai", "anthropic", "gemini"}

OPENAI_MODELS == <<"gpt-4-turbo-preview", "gpt-4", "gpt-3.5-turbo">>

ANTHROPIC_MODELS ==
  <<"claude-3-5-sonnet-latest", "claude-3-opus-latest", "claude-3-haiku-20240307">>

GEMINI_MODELS == <<"gemini-1", "gemini-2">>

Range(s) == {s[k] : k \in DOMAIN s}

SupportedModels(provider) ==
  CASE provider = "openai" -> Range(OPENAI_MODELS)
    [] provider = "anthropic" -> Range(ANTHROPIC_MODELS)
    [] provider = "gemini" -> Range(GEMINI_MODELS)

DefaultModel(provider) ==
  CASE provider = "openai" -> "gpt-3.5-turbo"
    [] provider = "anthropic" -> "claude-3-haiku-20240307"
    [] provider = "gemini" -> "gemini-1.0-pro"

\* Settings.MODEL_COSTS, in micro-dollars per 1000 tokens.
MODEL_COSTS ==
  ( "openai" :>
      ( "gpt-4-turbo-preview" :> [input |-> 10000, output |-> 30000]
     @@ "gpt-4" :> [input |-> 30000, output |-> 60000]
     @@ "gpt-3.5-turbo" :> [input |-> 500, output |-> 1500] ) )
  @@
  ( "anthropic" :>
      ( "claude-3-5-sonnet-latest" :> [input |-> 3000, output |-> 15000]
     @@ "claude-3-opus-latest" :> [input |-> 15000, output |-> 75000]
     @@ "claude-3-haiku-20240307" :> [input |-> 15000, output |-> 75000] ) )

\* The empty dict {} that dict.get falls back to.
EmptyDict == [k \in {} |-> 0]

get_model_cost(provider, model) ==
  IF provider \in DOMAIN MODEL_COSTS
    THEN IF model \in DOMAIN MODEL_COSTS[provider]
           THEN MODEL_COSTS[provider][model]
           ELSE EmptyDict
    ELSE EmptyDict

(***************************************************************************)
(* Arithmetic helpers                                                      *)
(***************************************************************************)
\* round(n / d) to the nearest integer, ties to the even neighbour (d > 0).
RoundHalfEven(n, d) ==
  LET q == n \div d
      r == n % d
  IN  IF 2 * r < d THEN q
      ELSE IF 2 * r > d THEN q + 1
      ELSE IF q % 2 = 0 THEN q ELSE q + 1

\* Round6 rounding to 5 decimals.
Round6_five(nano) == 10 * RoundHalfEven(nano, 10000)

\* round(x, 6) of a dollar amount: nano-dollars in, micro-dollars out.
Round6(nano) == RoundHalfEven(nano, 1000)

RECURSIVE Pow2(_)
Pow2(n) == IF n = 0 THEN 1 ELSE 2 * Pow2(n - 1)

(***************************************************************************)
(* State                                                                   *)
(***************************************************************************)
VARIABLES
  inst,          \* adapter objects, by slot: fields of BaseLLM and subclasses
  calls,         \* generate_response invocations, by slot
  uuidCount,     \* number of uuid4 values drawn so far
  returned,      \* per adapter: number, token sum and cost sum of the
                 \* results it has returned so far (history variable)
  llm_history,   \* st.session_state.llm_history
  stored,        \* every history entry ever stored, in order (history variable)
  observed,      \* the dict the last get_session_info / get_model_info
                 \* call returned to its caller
  app,           \* the get_llm_response invocation of the interface
  session_state  \* st.session_state: total_tokens, total_cost, response_times

vars ==
  <<inst, calls, uuidCount, returned, llm_history, stored, observed, app,
    session_state>>

NoInst ==
  [ status |-> "none", provider |-> "none", api_key |-> FALSE,
    arg_model |-> NoModel, model |-> NoModel, ambient |-> FALSE,
    gcp_settings |-> FALSE, client |-> "none", session_id |-> 0,
    total_requests |-> 0, total_tokens |-> 0, total_cost |-> 0,
    error |-> "none" ]

NoResult == [response |-> "none"]

NoneReturned == [results |-> 0, tokens |-> 0, cost |-> 0]

NoSession == [total_tokens |-> 0, total_cost |-> 0, response_times |-> <<>>]

NoCall ==
  [ pc |-> "idle", inst |-> 0, prompt_chars |-> 0, attempt |-> 0,
    slept |-> 0, vendor_calls |-> 0, failures |-> 0, vendor_ok |-> FALSE,
    latency |-> 0, log_error |-> FALSE, error |-> "none", cause |-> "none", result |-> NoResult ]

NoInfo == [kind |-> "none"]

\* get_llm_response before its first invocation.  llm is the slot of the
\* adapter the invocation created (0: none), cleanups counts the cleanup()
\* calls on it, outcome and error say how the invocation ended.
NoApp ==
  [ pc |-> "idle", invocations |-> 0, provider |-> "none", llm |-> 0,
    cleanups |-> 0, outcome |-> "none", error |-> "none" ]

(***************************************************************************)
(* Construction: BaseLLM.__init__ and the three setup() methods            *)
(***************************************************************************)
Fail(self) == [self EXCEPT !.status = "failed", !.error = "LLMException"]

\* OpenAISetup with the model validation left out.
OpenAISetup_novalidate(self) ==
  [self EXCEPT !.client = "open", !.status = "ready",
               !.model = IF self.model = NoModel
                           THEN DefaultModel("openai") ELSE self.model]

OpenAISetup(self) ==
  LET s1 == [self EXCEPT !.client = "open"]
      s2 == [s1 EXCEPT !.model =
               IF s1.model = NoModel THEN DefaultModel("openai") ELSE s1.model]
  IN  IF s2.model \notin Range(OPENAI_MODELS)
        THEN Fail(s2)
        ELSE [s2 EXCEPT !.status = "ready"]

AnthropicSetup(self) ==
  LET s1 == [self EXCEPT !.client = "open"]
      s2 == [s1 EXCEPT !.model =
               IF s1.model = NoModel THEN DefaultModel("anthropic") ELSE s1.model]
  IN  IF s2.model \notin Range(ANTHROPIC_MODELS)
        THEN Fail(s2)
        ELSE [s2 EXCEPT !.status = "ready"]

\* self.ambient: GOOGLE_APPLICATION_CREDENTIALS is set in the environment.
\* self.gcp_settings: the settings object carries GOOGLE_CLOUD_PROJECT and
\* GOOGLE_CLOUD_LOCATION, so that vertexai.init(...) is reached and returns;
\* otherwise the attribute access raises inside the try block.  The Settings
\* class of settings.py declares neither field, so the flag is an input of
\* the construction: TRUE stands for a deployment whose settings have them.
GeminiSetup(self) ==
  IF ~self.ambient THEN Fail(self)
  ELSE IF ~self.gcp_settings THEN Fail(self)
  ELSE
    LET s2 == [self EXCEPT !.model =
                 IF self.model = NoModel THEN DefaultModel("gemini") ELSE self.model]
    IN  IF s2.model \notin Range(GEMINI_MODELS)
          THEN Fail(s2)
          ELSE [s2 EXCEPT !.client = "open", !.status = "ready"]

Setup(self) ==
  CASE self.provider = "openai" -> OpenAISetup(self)
    [] self.provider = "anthropic" -> AnthropicSetup(self)
    [] self.provider = "gemini" -> GeminiSetup(self)

\* BaseLLMInit with the API key validation left out.
BaseLLMInit_nokeycheck(provider, api_key, model, ambient, gcp_settings, uuid) ==
  Setup([ NoInst EXCEPT
            !.status = "constructing", !.provider = provider,
            !.api_key = api_key, !.arg_model = model, !.model = model,
            !.ambient = ambient, !.gcp_settings = gcp_settings,
            !.session_id = uuid ])

\* api_key is TRUE for a non-empty key, FALSE for None or the empty string.
BaseLLMInit(provider, api_key, model, ambient, gcp_settings, uuid) ==
  LET self == [ NoInst EXCEPT
                  !.status = "constructing",
                  !.provider = provider,
                  !.api_key = api_key,
                  !.arg_model = model,
                  !.model = model,
                  !.ambient = ambient,
                  !.gcp_settings = gcp_settings,
                  !.session_id = uuid,
                  !.total_requests = 0,
                  !.total_tokens = 0,
                  !.total_cost = 0 ]
  IN  IF ~api_key THEN Fail(self) ELSE Setup(self)

(***************************************************************************)
(* BaseLLM helpers used by generate_response                               *)
(***************************************************************************)
\* dict.get(key, default)
Get(d, key, default) == IF key \in DOMAIN d THEN d[key] ELSE default

get_session_info(self) ==
  [ session_id |-> self.session_id,
    metrics |-> [ total_requests |-> self.total_requests,
                  total_tokens |-> self.total_tokens,
                  total_cost |-> self.total_cost ] ]

\* get_model_info of the three adapters; they differ in the provider only.
get_model_info(self) ==
  LET model_costs == get_model_cost(self.provider, self.model)
  IN  [ provider |-> self.provider,
        model |-> self.model,
        capabilities |->
          [ max_tokens |-> DEFAULT_PARAMETERS["max_tokens"],
            supported_models |-> SupportedModels(self.provider) ],
        cost_info |->
          [ input_cost |-> Get(model_costs, "input", 0),
            output_cost |-> Get(model_costs, "output", 0) ],
        session_info |-> get_session_info(self),
        default_parameters |-> DEFAULT_PARAMETERS ]

validate_response(response) ==
  \A key \in {"response", "metadata"} : key \in DOMAIN response

\* log_interaction assigning the call's values instead of adding them.
log_interaction_overwrite(self, response) ==
  [ self EXCEPT
      !.total_requests = @ + 1,
      !.total_tokens = response.metadata.tokens.total_tokens,
      !.total_cost = response.metadata.costs.total_cost ]

\* The counter updates of log_interaction; the log record it then emits does
\* not change the adapter.
log_interaction(self, response) ==
  LET metadata == Get(response, "metadata", EmptyDict)
      tokens == Get(metadata, "tokens", EmptyDict)
      costs == Get(metadata, "costs", EmptyDict)
  IN  [ self EXCEPT
          !.total_requests = @ + 1,
          !.total_tokens = @ + Get(tokens, "total_tokens", 0),
          !.total_cost = @ + Get(costs, "total_cost", 0) ]

(***************************************************************************)
(* generate_response                                                       *)
(***************************************************************************)
\* The exception classes the retry loop catches: OpenAIError, APIError, and
\* any Exception for Gemini.  kind is "api" for the vendor SDK's error class
\* and "other" for any other exception raised by the vendor call.
Retryable(provider, kind) == provider = "gemini" \/ kind = "api"

\* LastAttempt giving up one attempt early.
LastAttempt_early(attempt) == attempt = RetryAttempts - 2

\* if attempt == retry_attempts - 1: raise
LastAttempt(attempt) == attempt = RetryAttempts - 1

\* The token counts the adapter reports for a vendor response.
TokenCounts(provider, prompt_chars, resp) ==
  CASE provider = "openai" ->
         [ prompt_tokens |-> resp.prompt_tokens,
           completion_tokens |-> resp.completion_tokens,
           total_tokens |-> resp.total_tokens ]
    [] provider = "anthropic" ->
         [ prompt_tokens |-> resp.prompt_tokens,
           completion_tokens |-> resp.completion_tokens,
           total_tokens |-> resp.prompt_tokens + resp.completion_tokens ]
    [] provider = "gemini" ->
         [ prompt_tokens |-> prompt_chars \div 4,
           completion_tokens |-> resp.text_chars \div 4,
           total_tokens |-> (prompt_chars \div 4) + (resp.text_chars \div 4) ]

\* CostBreakdown rounding the total to 5 decimal places.
CostBreakdown_total5(provider, model_costs, tokens) ==
  LET input_cost == tokens.prompt_tokens * model_costs["input"]
      output_cost == tokens.completion_tokens * model_costs["output"]
      total_cost == input_cost + output_cost
  IN  IF provider = "openai"
        THEN [ prompt_cost |-> Round6(input_cost),
               completion_cost |-> Round6(output_cost),
               total_cost |-> 10 * RoundHalfEven(total_cost, 10000) ]
        ELSE [ input_cost |-> Round6(input_cost),
               output_cost |-> Round6(output_cost),
               total_cost |-> 10 * RoundHalfEven(total_cost, 10000) ]

\* The costs dict of the result; model_costs has both rates.
CostBreakdown(provider, model_costs, tokens) ==
  LET input_cost == tokens.prompt_tokens * model_costs["input"]
      output_cost == tokens.completion_tokens * model_costs["output"]
      total_cost == input_cost + output_cost
  IN  IF provider = "openai"
        THEN [ prompt_cost |-> Round6(input_cost),
               completion_cost |-> Round6(output_cost),
               total_cost |-> Round6(total_cost) ]
        ELSE [ input_cost |-> Round6(input_cost),
               output_cost |-> Round6(output_cost),
               total_cost |-> Round6(total_cost) ]

CompletionInfo(provider) ==
  IF provider = "openai"
    THEN [finish_reason |-> "stop", created |-> "time"]
    ELSE [stop_reason |-> "stop", created |-> "time"]

\* AfterVendor taking the session snapshot after the counter updates.
AfterVendor_snapshotlast(self, call, resp, latency) ==
  LET response_time == call.slept + latency
      tokens == TokenCounts(self.provider, call.prompt_chars, resp)
      model_costs == get_model_cost(self.provider, self.model)
  IN  IF ~({"input", "output"} \subseteq DOMAIN model_costs)
        THEN [raised |-> TRUE, cause |-> "KeyError"]
      ELSE IF response_time = 0
        THEN [raised |-> TRUE, cause |-> "ZeroDivisionError"]
      ELSE
        LET result ==
              [ response |-> "text",
                metadata |->
                  [ model |-> self.model,
                    tokens |-> tokens,
                    costs |-> CostBreakdown(self.provider, model_costs, tokens),
                    performance |->
                      [ response_time |-> response_time,
                        tokens_per_second |->
                          RoundHalfEven(tokens.total_tokens * 100, response_time),
                        retry_count |-> call.attempt ],
                    session_info |->
                      get_session_info(
                        [self EXCEPT
                           !.total_requests = @ + 1,
                           !.total_tokens = @ + tokens.total_tokens,
                           !.total_cost = @ +
                             CostBreakdown(self.provider, model_costs,
                                           tokens).total_cost]),
                    completion_info |-> CompletionInfo(self.provider) ] ]
        IN  IF ~validate_response(result)
              THEN [raised |-> TRUE, cause |-> "validation"]
              ELSE [raised |-> FALSE, result |-> result]

\* Everything generate_response does after the vendor call has returned,
\* up to the return or the raise; there is no await in it.  The outcome is
\* the raised exception's cause or the returned result.
AfterVendor(self, call, resp, latency) ==
  LET response_time == call.slept + latency
      tokens == TokenCounts(self.provider, call.prompt_chars, resp)
      model_costs == get_model_cost(self.provider, self.model)
  IN  IF ~({"input", "output"} \subseteq DOMAIN model_costs)
        THEN [raised |-> TRUE, cause |-> "KeyError"]
      ELSE IF response_time = 0
        THEN [raised |-> TRUE, cause |-> "ZeroDivisionError"]
      ELSE
        LET result ==
              [ response |-> "text",
                metadata |->
                  [ model |-> self.model,
                    tokens |-> tokens,
                    costs |-> CostBreakdown(self.provider, model_costs, tokens),
                    performance |->
                      [ response_time |-> response_time,
                        tokens_per_second |->
                          RoundHalfEven(tokens.total_tokens * 100, response_time),
                        retry_count |-> call.attempt ],
                    session_info |-> get_session_info(self),
                    completion_info |-> CompletionInfo(self.provider) ] ]
        IN  IF ~validate_response(result)
              THEN [raised |-> TRUE, cause |-> "validation"]
              ELSE [raised |-> FALSE, result |-> result]

(***************************************************************************)
(* LLMInsightsHub.store_llm_call                                           *)
(***************************************************************************)
\* model.split("-")[0]
ModelPrefix(model) ==
  CASE model \in Range(OPENAI_MODELS) -> "gpt"
    [] model \in Range(ANTHROPIC_MODELS) -> "claude"
    [] model \in Range(GEMINI_MODELS) -> "gemini"
    [] OTHER -> model

\* Length of prompt[:100] + "..." if len(prompt) > 100 else prompt
PreviewChars(prompt_chars) ==
  IF prompt_chars > PromptPreview THEN PromptPreview + 3 ELSE prompt_chars

\* store_llm_call without the eviction.
store_llm_call_noevict(history, prompt_chars, response, now) ==
  Append(history,
         [ timestamp |-> now,
           provider |-> ModelPrefix(response.metadata.model),
           model |-> response.metadata.model,
           prompt |-> PreviewChars(prompt_chars),
           total_tokens |-> response.metadata.tokens.total_tokens,
           response_time |-> response.metadata.performance.response_time,
           total_cost |-> response.metadata.costs.total_cost,
           tokens_per_second |-> response.metadata.performance.tokens_per_second,
           full_prompt |-> prompt_chars,
           full_response |-> response.response ])

\* store_llm_call evicting the newest of the old entries, pop() for pop(0).
store_llm_call_poplast(history, prompt_chars, response, now) ==
  LET appended == store_llm_call_noevict(history, prompt_chars, response, now)
  IN  IF Len(appended) > HistoryCap
        THEN SubSeq(appended, 1, Len(appended) - 2) \o <<appended[Len(appended)]>>
        ELSE appended

\* The history list after store_llm_call(prompt, response) at time now.
store_llm_call(history, prompt_chars, response, now) ==
  LET history_entry ==
        [ timestamp |-> now,
          provider |-> ModelPrefix(response.metadata.model),
          model |-> response.metadata.model,
          prompt |-> PreviewChars(prompt_chars),
          total_tokens |-> response.metadata.tokens.total_tokens,
          response_time |-> response.metadata.performance.response_time,
          total_cost |-> response.metadata.costs.total_cost,
          tokens_per_second |-> response.metadata.performance.tokens_per_second,
          full_prompt |-> prompt_chars,
          full_response |-> response.response ]
      appended == Append(history, history_entry)
  IN  IF Len(appended) > HistoryCap THEN Tail(appended) ELSE appended

(***************************************************************************)
(* Inputs                                                                  *)
(***************************************************************************)
\* Model names passed to the constructors; a name of another provider's
\* list, and "gemini-1.0-pro", are unsupported names.  Only the Gemini adapter
\* looks at an ambient credential source (GOOGLE_APPLICATION_CREDENTIALS).
ModelArgs == {NoModel, "gpt-4", "claude-3-opus-latest", "gemini-2", "gemini-1.0-pro"}

CtorArgs ==
  [ provider : {"openai", "anthropic"}, api_key : BOOLEAN, model : ModelArgs,
    ambient : {FALSE}, gcp_settings : {FALSE} ]
  \cup
  [ provider : {"gemini"}, api_key : BOOLEAN, model : ModelArgs,
    ambient : BOOLEAN, gcp_settings : BOOLEAN ]

\* Constructor arguments of the adapters that serve requests: adapters of
\* every provider, each with credentials and a supported or default model.
ServingArgs ==
  { [provider |-> "openai", api_key |-> TRUE, model |-> NoModel,
     ambient |-> FALSE, gcp_settings |-> FALSE],
    [provider |-> "openai", api_key |-> TRUE, model |-> "gpt-4",
     ambient |-> FALSE, gcp_settings |-> FALSE],
    [provider |-> "anthropic", api_key |-> TRUE, model |-> "claude-3-opus-latest",
     ambient |-> FALSE, gcp_settings |-> FALSE],
    [provider |-> "gemini", api_key |-> TRUE, model |-> "gemini-2",
     ambient |-> TRUE, gcp_settings |-> TRUE] }

PromptChars == {6, 400}

Latencies == {0, 1}

ErrorKinds == {"api", "other"}

\* What the vendor reports: usage counts (OpenAI, Anthropic) or text (Gemini).
\* The second OpenAI response reports a total that is not the sum of its parts.
VendorResponses(provider) ==
  CASE provider = "openai" ->
         { [prompt_tokens |-> 100, completion_tokens |-> 50, total_tokens |-> 150,
            text_chars |-> 0],
           [prompt_tokens |-> 1, completion_tokens |-> 3, total_tokens |-> 5,
            text_chars |-> 0] }
    [] provider = "anthropic" ->
         { [prompt_tokens |-> 100, completion_tokens |-> 50, total_tokens |-> 0,
            text_chars |-> 0],
           [prompt_tokens |-> 1, completion_tokens |-> 3, total_tokens |-> 0,
            text_chars |-> 0] }
    [] provider = "gemini" ->
         { [prompt_tokens |-> 0, completion_tokens |-> 0, total_tokens |-> 0,
            text_chars |-> 200],
           [prompt_tokens |-> 0, completion_tokens |-> 0, total_tokens |-> 0,
            text_chars |-> 13] }

(***************************************************************************)
(* Actions                                                                 *)
(***************************************************************************)
\* ConstructWith giving every object the same session id.
ConstructWith_sameid(args) ==
  \E i \in DOMAIN inst :
    /\ inst[i].status = "none"
    /\ \A j \in DOMAIN inst : j < i => inst[j].status # "none"
    /\ inst' = [inst EXCEPT ![i] =
                  BaseLLMInit(args.provider, args.api_key, args.model,
                              args.ambient, args.gcp_settings, 1)]
    /\ uuidCount' = uuidCount + 1
    /\ UNCHANGED <<calls, returned, llm_history, stored, observed, app,
                   session_state>>

\* SomeLLM(api_key=..., model=...): the constructor runs to its return or
\* its raise in one step.  The object takes the first free slot.  uuid4()
\* yields a value that no earlier call has yielded.
ConstructWith(args) ==
  \E i \in DOMAIN inst :
    /\ inst[i].status = "none"
    /\ \A j \in DOMAIN inst : j < i => inst[j].status # "none"
    /\ inst' = [inst EXCEPT ![i] =
                  BaseLLMInit(args.provider, args.api_key, args.model,
                              args.ambient, args.gcp_settings, uuidCount + 1)]
    /\ uuidCount' = uuidCount + 1
    /\ UNCHANGED <<calls, returned, llm_history, stored, observed, app,
                   session_state>>

Construct == \E args \in CtorArgs : ConstructWith(args)

ConstructServing == \E args \in ServingArgs : ConstructWith(args)

RECURSIVE ResultsReturned(_)
ResultsReturned(S) ==
  IF S = {} THEN 0
  ELSE LET i == CHOOSE j \in S : TRUE
       IN  returned[i].results + ResultsReturned(S \ {i})

\* GenerateStartWithin counting the request when the call starts.
GenerateStartWithin_counting(limit) ==
  \E c \in DOMAIN calls, i \in DOMAIN inst, n \in PromptChars :
    /\ calls[c].pc \in {"idle", "returned", "raised"}
    /\ ResultsReturned(DOMAIN inst) < limit
    /\ inst[i].status = "ready"
    /\ calls' = [calls EXCEPT ![c] =
                   [ NoCall EXCEPT !.pc = "vendor", !.inst = i,
                                   !.prompt_chars = n, !.attempt = 0,
                                   !.vendor_calls = 1 ]]
    /\ inst' = [inst EXCEPT ![i].total_requests = @ + 1]
    /\ UNCHANGED <<uuidCount, returned, llm_history, stored, observed, app,
                   session_state>>

\* generate_response up to its first await: the first vendor call is issued.
\* A call slot is free before its first call and after a call has returned
\* or raised; the model stops starting calls once MaxRequests results have
\* been returned.
GenerateStartWithin(limit) ==
  \E c \in DOMAIN calls, i \in DOMAIN inst, n \in PromptChars :
    /\ calls[c].pc \in {"idle", "returned", "raised"}
    /\ ResultsReturned(DOMAIN inst) < limit
    /\ inst[i].status = "ready"
    /\ calls' = [calls EXCEPT ![c] =
                   [ NoCall EXCEPT !.pc = "vendor", !.inst = i,
                                   !.prompt_chars = n, !.attempt = 0,
                                   !.vendor_calls = 1 ]]
    /\ UNCHANGED <<inst, uuidCount, returned, llm_history, stored, observed, app,
                   session_state>>

\* Raise with a bare "raise" in the outer handlers.
Raise_bare(call, cause) ==
  [call EXCEPT !.pc = "raised", !.error = cause, !.cause = cause]

\* The outer except clauses of generate_response: whatever was raised inside
\* the try block (cause) leaves the method as LLMException.
Raise(call, cause) ==
  [call EXCEPT !.pc = "raised", !.error = "LLMException", !.cause = cause]

GenerateStart == GenerateStartWithin(MaxRequests)

\* VendorError sleeping after every failed attempt, the last one included.
VendorError_sleepfirst ==
  \E c \in DOMAIN calls, kind \in ErrorKinds :
    /\ calls[c].pc = "vendor"
    /\ LET call == [calls[c] EXCEPT !.failures = @ + 1]
           provider == inst[call.inst].provider
       IN  calls' = [calls EXCEPT ![c] =
             IF ~Retryable(provider, kind) THEN Raise(call, "unexpected")
             ELSE [call EXCEPT !.pc = "sleeping"]]
    /\ UNCHANGED <<inst, uuidCount, returned, llm_history, stored, observed, app,
                   session_state>>

\* The awaited vendor call raises.
VendorError ==
  \E c \in DOMAIN calls, kind \in ErrorKinds :
    /\ calls[c].pc = "vendor"
    /\ LET call == [calls[c] EXCEPT !.failures = @ + 1]
           provider == inst[call.inst].provider
       IN  calls' = [calls EXCEPT ![c] =
             IF ~Retryable(provider, kind) THEN Raise(call, "unexpected")
             ELSE IF LastAttempt(call.attempt) THEN Raise(call, "provider")
             ELSE [call EXCEPT !.pc = "sleeping"]]
    /\ UNCHANGED <<inst, uuidCount, returned, llm_history, stored, observed, app,
                   session_state>>

\* BackoffDone whose first sleep is never resumed.
BackoffDone_suspended ==
  \E c \in DOMAIN calls :
    /\ calls[c].pc = "sleeping"
    /\ calls[c].attempt > 0
    /\ LET call == [calls[c] EXCEPT !.slept = @ + Pow2(calls[c].attempt)]
       IN  calls' = [calls EXCEPT ![c] =
             IF call.attempt + 1 < RetryAttempts
               THEN [call EXCEPT !.pc = "vendor", !.attempt = @ + 1,
                                 !.vendor_calls = @ + 1]
               ELSE Raise(call, "unexpected")]
    /\ UNCHANGED <<inst, uuidCount, returned, llm_history, stored, observed, app,
                   session_state>>

\* await asyncio.sleep(2 ** attempt) returns and the loop goes round; when
\* range() is exhausted the loop ends with no response bound.
BackoffDone ==
  \E c \in DOMAIN calls :
    /\ calls[c].pc = "sleeping"
    /\ LET call == [calls[c] EXCEPT !.slept = @ + Pow2(calls[c].attempt)]
       IN  calls' = [calls EXCEPT ![c] =
             IF call.attempt + 1 < RetryAttempts
               THEN [call EXCEPT !.pc = "vendor", !.attempt = @ + 1,
                                 !.vendor_calls = @ + 1]
               ELSE Raise(call, "unexpected")]
    /\ UNCHANGED <<inst, uuidCount, returned, llm_history, stored, observed, app,
                   session_state>>

\* Logged without the try/except of log_interaction.
Logged_propagating(call, log_ok) ==
  IF log_ok
    THEN [call EXCEPT !.pc = "returned"]
    ELSE Raise([call EXCEPT !.log_error = TRUE, !.result = NoResult], "log")

\* The end of log_interaction and of generate_response: after the counter
\* updates the log record is built and emitted; an exception raised there
\* (log_ok is FALSE) is caught and reported by log_interaction itself, and
\* generate_response returns the result.
Logged(call, log_ok) ==
  [call EXCEPT !.pc = "returned", !.log_error = ~log_ok]

\* VendorReturnWith keeping one tracker for all adapters.
VendorReturnWith_shared(c, resp, latency) ==
  /\ calls[c].pc = "vendor"
  /\ LET i == calls[c].inst
         call == [calls[c] EXCEPT !.vendor_ok = TRUE, !.latency = latency]
         out == AfterVendor(inst[i], call, resp, latency)
     IN  IF out.raised
           THEN /\ calls' = [calls EXCEPT ![c] = Raise(call, out.cause)]
                /\ inst' = inst
                /\ returned' = returned
           ELSE /\ \E log_ok \in BOOLEAN :
                     calls' = [calls EXCEPT ![c] =
                                 Logged([call EXCEPT !.result = out.result],
                                        log_ok)]
                /\ inst' = [j \in DOMAIN inst |->
                              IF inst[j].status = "ready"
                                THEN log_interaction(inst[j], out.result)
                                ELSE inst[j]]
                /\ returned' = [returned EXCEPT ![i] =
                     [ results |-> @.results + 1,
                       tokens |-> @.tokens
                         + out.result.metadata.tokens.total_tokens,
                       cost |-> @.cost
                         + out.result.metadata.costs.total_cost ]]
  /\ UNCHANGED <<uuidCount, llm_history, stored, observed, app, session_state>>

\* The awaited vendor call returns a response; the rest of generate_response
\* runs to its return or its raise.
VendorReturnWith(c, resp, latency) ==
  /\ calls[c].pc = "vendor"
  /\ LET i == calls[c].inst
         call == [calls[c] EXCEPT !.vendor_ok = TRUE, !.latency = latency]
         out == AfterVendor(inst[i], call, resp, latency)
     IN  IF out.raised
           THEN /\ calls' = [calls EXCEPT ![c] = Raise(call, out.cause)]
                /\ inst' = inst
                /\ returned' = returned
           ELSE /\ \E log_ok \in BOOLEAN :
                     calls' = [calls EXCEPT ![c] =
                                 Logged([call EXCEPT !.result = out.result],
                                        log_ok)]
                /\ inst' = [inst EXCEPT ![i] =
                              log_interaction(inst[i], out.result)]
                /\ returned' = [returned EXCEPT ![i] =
                     [ results |-> @.results + 1,
                       tokens |-> @.tokens
                         + out.result.metadata.tokens.total_tokens,
                       cost |-> @.cost
                         + out.result.metadata.costs.total_cost ]]
  /\ UNCHANGED <<uuidCount, llm_history, stored, observed, app, session_state>>

VendorReturn ==
  \E c \in DOMAIN calls, latency \in Latencies :
    /\ calls[c].pc = "vendor"
    /\ \E resp \in VendorResponses(inst[calls[c].inst].provider) :
         VendorReturnWith(c, resp, latency)

\* GetSessionInfo counting the snapshot as a request.
GetSessionInfo_counting ==
  \E i \in DOMAIN inst :
    /\ inst[i].status = "ready"
    /\ observed' = [kind |-> "session_info", of |-> i,
                    value |-> get_session_info(inst[i])]
    /\ inst' = [inst EXCEPT ![i].total_requests = @ + 1]
    /\ UNCHANGED <<calls, uuidCount, returned, llm_history, stored, app,
                   session_state>>

\* llm.get_session_info() on a constructed adapter; the caller gets the dict.
GetSessionInfo ==
  \E i \in DOMAIN inst :
    /\ inst[i].status = "ready"
    /\ observed' = [kind |-> "session_info", of |-> i,
                    value |-> get_session_info(inst[i])]
    /\ UNCHANGED <<inst, calls, uuidCount, returned, llm_history, stored, app,
                   session_state>>

\* llm.get_model_info() on a constructed adapter.
GetModelInfo ==
  \E i \in DOMAIN inst :
    /\ inst[i].status = "ready"
    /\ observed' = [kind |-> "model_info", of |-> i,
                    value |-> get_model_info(inst[i])]
    /\ UNCHANGED <<inst, calls, uuidCount, returned, llm_history, stored, app,
                   session_state>>

(***************************************************************************)
(* LLMInsightsHub.get_llm_response                                         *)
(***************************************************************************)
\* The provider names of the sidebar, and one that is none of them.
AppProviders == {"OpenAI", "Anthropic", "Gemini", "Other"}

\* The adapter class get_llm_response uses for a provider name.
AdapterOf(provider) ==
  CASE provider = "OpenAI" -> "openai"
    [] provider = "Anthropic" -> "anthropic"
    [] provider = "Gemini" -> "gemini"

FirstFree == CHOOSE i \in DOMAIN inst :
               /\ inst[i].status = "none"
               /\ \A j \in DOMAIN inst : j < i => inst[j].status # "none"

AppDone(outcome, error) ==
  [app EXCEPT !.pc = "done", !.invocations = @ + 1, !.provider = "none",
              !.llm = 0, !.cleanups = 0, !.outcome = outcome, !.error = error]

\* get_llm_response from its call to its first await, or to its end when it
\* never gets to generate_response.  key says whether the provider's API key
\* of the settings is non-empty, named whether application_name is.
GetLLMResponseStart ==
  \E provider \in AppProviders, model \in ModelArgs, named \in BOOLEAN,
     key \in BOOLEAN, n \in PromptChars :
    /\ app.pc \in {"idle", "done"}
    /\ app.invocations < MaxInvocations
    /\ calls[1].pc \in {"idle", "returned", "raised"}
    /\ IF provider \notin {"OpenAI", "Anthropic", "Gemini"}
         THEN /\ app' = AppDone("raised", "ValueError")
              /\ UNCHANGED <<inst, calls, uuidCount>>
       ELSE IF \/ ~named
               \/ provider = "Anthropic" /\ model \notin Range(ANTHROPIC_MODELS)
               \/ provider = "Gemini" /\ model \notin Range(GEMINI_MODELS)
         THEN /\ app' = AppDone("None", "none")
              /\ UNCHANGED <<inst, calls, uuidCount>>
       ELSE IF provider = "Gemini"
         THEN /\ app' = AppDone("raised", "TypeError")
              /\ UNCHANGED <<inst, calls, uuidCount>>
       ELSE LET i == FirstFree
                llm == BaseLLMInit(AdapterOf(provider), key, model, FALSE, FALSE,
                                   uuidCount + 1)
            IN  /\ inst' = [inst EXCEPT ![i] = llm]
                /\ uuidCount' = uuidCount + 1
                /\ IF llm.status # "ready"
                     THEN /\ app' = AppDone("raised", "LLMException")
                          /\ calls' = calls
                     ELSE /\ app' = [app EXCEPT !.pc = "awaiting",
                                                !.provider = provider,
                                                !.llm = i, !.cleanups = 0,
                                                !.outcome = "none",
                                                !.error = "none"]
                          /\ calls' = [calls EXCEPT ![1] =
                               [ NoCall EXCEPT !.pc = "vendor", !.inst = i,
                                               !.prompt_chars = n,
                                               !.attempt = 0,
                                               !.vendor_calls = 1 ]]
    /\ UNCHANGED <<returned, llm_history, stored, observed, session_state>>

\* generate_response has returned or raised inside "async with": __aexit__
\* calls cleanup(), which awaits client.close().
AExit ==
  /\ app.pc = "awaiting"
  /\ app.provider = "OpenAI"
  /\ calls[1].pc \in {"returned", "raised"}
  /\ app' = [app EXCEPT !.pc = "cleanup", !.cleanups = @ + 1]
  /\ UNCHANGED <<inst, calls, uuidCount, returned, llm_history, stored, observed,
                 session_state>>

\* How get_llm_response ends once its generate_response call has ended: the
\* result is returned, the LLMException is shown and raised again.
AppEnd ==
  [app EXCEPT !.pc = "done", !.invocations = @ + 1,
              !.outcome = IF calls[1].pc = "returned" THEN "result" ELSE "raised",
              !.error = IF calls[1].pc = "returned" THEN "none"
                        ELSE "LLMException"]

\* client.close() has returned or raised (cleanup logs and swallows the
\* exception); get_llm_response then returns or raises.
CleanupDone ==
  \E closed \in BOOLEAN :
    /\ app.pc = "cleanup"
    /\ inst' = [inst EXCEPT ![app.llm].client =
                  IF closed THEN "closed" ELSE @]
    /\ app' = AppEnd
    /\ UNCHANGED <<calls, uuidCount, returned, llm_history, stored, observed,
                   session_state>>

\* generate_response has returned or raised outside any "async with":
\* get_llm_response returns or raises.
GetLLMResponseEnd ==
  /\ app.pc = "awaiting"
  /\ app.provider # "OpenAI"
  /\ calls[1].pc \in {"returned", "raised"}
  /\ app' = AppEnd
  /\ UNCHANGED <<inst, calls, uuidCount, returned, llm_history, stored, observed,
                 session_state>>

(***************************************************************************)
(* Specification of the adapters serving requests, one request at a time   *)
(***************************************************************************)
Init ==
  /\ inst = [i \in 1 .. MaxInst |-> NoInst]
  /\ calls = <<NoCall>>
  /\ uuidCount = 0
  /\ returned = [i \in 1 .. MaxInst |-> NoneReturned]
  /\ llm_history = <<>>
  /\ stored = <<>>
  /\ observed = NoInfo
  /\ app = NoApp
  /\ session_state = NoSession

Next ==
  \/ ConstructServing
  \/ GenerateStart
  \/ VendorError
  \/ BackoffDone
  \/ VendorReturn

Spec == Init /\ [][Next]_vars

(***************************************************************************)
(* Specification of adapter construction                                   *)
(***************************************************************************)
InitCtor ==
  /\ inst = [i \in 1 .. MaxCtor |-> NoInst]
  /\ calls = <<>>
  /\ uuidCount = 0
  /\ returned = [i \in 1 .. MaxCtor |-> NoneReturned]
  /\ llm_history = <<>>
  /\ stored = <<>>
  /\ observed = NoInfo
  /\ app = NoApp
  /\ session_state = NoSession

NextCtor == Construct

SpecCtor == InitCtor /\ [][NextCtor]_vars

(***************************************************************************)
(* Specification of the history buffer                                     *)
(***************************************************************************)
\* A result as generate_response returns it on a fresh adapter built with
\* args, for the vendor response resp received after one second.
ResultOf(args, prompt_chars, resp) ==
  AfterVendor(
    BaseLLMInit(args.provider, args.api_key, args.model, args.ambient,
                args.gcp_settings, 1),
    [NoCall EXCEPT !.prompt_chars = prompt_chars], resp, 1).result

\* The calls stored in the history: a short OpenAI call and an Anthropic call
\* whose prompt is longer than the preview.
HistoryInputs ==
  { [ prompt_chars |-> 6,
      response |->
        ResultOf([provider |-> "openai", api_key |-> TRUE, model |-> NoModel,
                  ambient |-> FALSE, gcp_settings |-> FALSE], 6,
                 [prompt_tokens |-> 1, completion_tokens |-> 3,
                  total_tokens |-> 5, text_chars |-> 0]) ],
    [ prompt_chars |-> 400,
      response |->
        ResultOf([provider |-> "anthropic", api_key |-> TRUE,
                  model |-> "claude-3-opus-latest",
                  ambient |-> FALSE, gcp_settings |-> FALSE], 400,
                 [prompt_tokens |-> 100, completion_tokens |-> 50,
                  total_tokens |-> 0, text_chars |-> 0]) ] }

\* store_llm_call(prompt, response); the clock is the number of the store.
StoreLLMCall ==
  \E in \in HistoryInputs :
    /\ Len(stored) < MaxStores
    /\ llm_history' = store_llm_call(llm_history, in.prompt_chars, in.response,
                                     Len(stored) + 1)
    /\ stored' = Append(stored,
                        Head(store_llm_call(<<>>, in.prompt_chars, in.response,
                                            Len(stored) + 1)))
    /\ UNCHANGED <<inst, calls, uuidCount, returned, observed, app,
                   session_state>>

InitHist ==
  /\ inst = <<>>
  /\ calls = <<>>
  /\ uuidCount = 0
  /\ returned = <<>>
  /\ llm_history = <<>>
  /\ stored = <<>>
  /\ observed = NoInfo
  /\ app = NoApp
  /\ session_state = NoSession

NextHist == StoreLLMCall

SpecHist == InitHist /\ [][NextHist]_vars

(***************************************************************************)
(* Specification of the cost computation over the whole rate table         *)
(***************************************************************************)
\* Constructor arguments of an adapter for every model of the rate table.
PricedArgs ==
  UNION { { [provider |-> provider, api_key |-> TRUE, model |-> model,
             ambient |-> FALSE, gcp_settings |-> FALSE] :
            model \in DOMAIN MODEL_COSTS[provider] } :
          provider \in DOMAIN MODEL_COSTS }

ConstructPriced == \E args \in PricedArgs : ConstructWith(args)

\* The usage of the documented cost example.
ExampleUsage ==
  [prompt_tokens |-> 100, completion_tokens |-> 50, total_tokens |-> 150,
   text_chars |-> 0]

\* Usage counts the vendor reports: every pair of counts up to MaxTokens, the
\* same pairs on top of a thousand tokens, and the example.
UsageCounts ==
  { [prompt_tokens |-> base + p, completion_tokens |-> base + c,
     total_tokens |-> 2 * base + p + c, text_chars |-> 0] :
    p \in 0 .. MaxTokens, c \in 0 .. MaxTokens, base \in {0, 1000} }
  \cup {ExampleUsage}

GeneratePriced == GenerateStartWithin(MaxPriced)

VendorReturnUsage ==
  \E c \in DOMAIN calls, resp \in UsageCounts, latency \in Latencies :
    VendorReturnWith(c, resp, latency)

InitCost ==
  /\ inst = <<NoInst>>
  /\ calls = <<NoCall>>
  /\ uuidCount = 0
  /\ returned = <<NoneReturned>>
  /\ llm_history = <<>>
  /\ stored = <<>>
  /\ observed = NoInfo
  /\ app = NoApp
  /\ session_state = NoSession

NextCost ==
  \/ ConstructPriced
  \/ GeneratePriced
  \/ VendorReturnUsage

SpecCost == InitCost /\ [][NextCost]_vars

(***************************************************************************)
(* Specification of one adapter that is asked for its info while it serves *)
(***************************************************************************)
GenerateObserved == GenerateStartWithin(MaxInfoRequests)

InitInfo ==
  /\ inst = <<NoInst>>
  /\ calls = <<NoCall>>
  /\ uuidCount = 0
  /\ returned = <<NoneReturned>>
  /\ llm_history = <<>>
  /\ stored = <<>>
  /\ observed = NoInfo
  /\ app = NoApp
  /\ session_state = NoSession

NextInfo ==
  \/ ConstructServing
  \/ GenerateObserved
  \/ VendorError
  \/ BackoffDone
  \/ VendorReturn
  \/ GetSessionInfo
  \/ GetModelInfo

SpecInfo == InitInfo /\ [][NextInfo]_vars

(***************************************************************************)
(* Specification of the interface calling the adapters                     *)
(***************************************************************************)
InitApp ==
  /\ inst = [i \in 1 .. MaxInvocations |-> NoInst]
  /\ calls = <<NoCall>>
  /\ uuidCount = 0
  /\ returned = [i \in 1 .. MaxInvocations |-> NoneReturned]
  /\ llm_history = <<>>
  /\ stored = <<>>
  /\ observed = NoInfo
  /\ app = NoApp
  /\ session_state = NoSession

NextApp ==
  \/ GetLLMResponseStart
  \/ VendorError
  \/ BackoffDone
  \/ VendorReturn
  \/ AExit
  \/ CleanupDone
  \/ GetLLMResponseEnd

SpecApp == InitApp /\ [][NextApp]_vars

(***************************************************************************)
(* Specification of one adapter whose awaits all complete                  *)
(***************************************************************************)
GenerateLive == GenerateStartWithin(MaxLiveRequests)

NextLive ==
  \/ ConstructServing
  \/ GenerateLive
  \/ VendorError
  \/ BackoffDone
  \/ VendorReturn

\* Every vendor call that is awaited eventually returns or raises, and the
\* event loop wakes every asyncio.sleep.  Nothing obliges a caller to
\* construct an adapter or to start a call.
Fairness ==
  /\ WF_vars(VendorError \/ VendorReturn)
  /\ WF_vars(BackoffDone)

SpecLive == InitInfo /\ [][NextLive]_vars /\ Fairness

(***************************************************************************)
(* Specification of concurrent calls on one adapter                        *)
(***************************************************************************)
\* GenerateConcurrent starting every call with fresh counters.
GenerateConcurrent_resetting ==
  \E c \in DOMAIN calls, i \in DOMAIN inst :
    /\ calls[c].pc = "idle"
    /\ \A d \in DOMAIN calls : d < c => calls[d].pc # "idle"
    /\ inst[i].status = "ready"
    /\ calls' = [calls EXCEPT ![c] =
                   [ NoCall EXCEPT !.pc = "vendor", !.inst = i,
                                   !.prompt_chars = PromptPreview,
                                   !.attempt = 0, !.vendor_calls = 1 ]]
    /\ inst' = [inst EXCEPT ![i].total_requests = 0, ![i].total_tokens = 0,
                            ![i].total_cost = 0]
    /\ UNCHANGED <<uuidCount, returned, llm_history, stored, observed, app,
                   session_state>>

\* A task calls generate_response while earlier calls on the adapter may
\* still be suspended at an await; each call has its own slot, taken in the
\* order the calls start.  All prompts have PromptPreview characters.
GenerateConcurrent ==
  \E c \in DOMAIN calls, i \in DOMAIN inst :
    /\ calls[c].pc = "idle"
    /\ \A d \in DOMAIN calls : d < c => calls[d].pc # "idle"
    /\ inst[i].status = "ready"
    /\ calls' = [calls EXCEPT ![c] =
                   [ NoCall EXCEPT !.pc = "vendor", !.inst = i,
                                   !.prompt_chars = PromptPreview,
                                   !.attempt = 0, !.vendor_calls = 1 ]]
    /\ UNCHANGED <<inst, uuidCount, returned, llm_history, stored, observed, app,
                   session_state>>

InitConc ==
  /\ inst = <<NoInst>>
  /\ calls = [c \in 1 .. MaxConcurrent |-> NoCall]
  /\ uuidCount = 0
  /\ returned = <<NoneReturned>>
  /\ llm_history = <<>>
  /\ stored = <<>>
  /\ observed = NoInfo
  /\ app = NoApp
  /\ session_state = NoSession

NextConc ==
  \/ ConstructServing
  \/ GenerateConcurrent
  \/ VendorError
  \/ BackoffDone
  \/ VendorReturn

SpecConc == InitConc /\ [][NextConc]_vars

(***************************************************************************)
(* Specification of one UI session: LLMInsightsHub.run_async               *)
(***************************************************************************)
\* What one chat submission is made of: the provider and the model the sidebar
\* holds (the model is always one of the provider's list, the application
\* name is never empty: run_async returns before the chat input otherwise),
\* whether the settings hold the provider's API key, the prompt, and what the
\* vendor does: it fails every attempt, or answers resp after one second.
ChatInputs ==
  { [ provider |-> "OpenAI", model |-> "gpt-4", key |-> TRUE,
      prompt_chars |-> 6, vendor_ok |-> TRUE,
      resp |-> [prompt_tokens |-> 1, completion_tokens |-> 3,
                total_tokens |-> 5, text_chars |-> 0] ],
    [ provider |-> "Anthropic", model |-> "claude-3-opus-latest", key |-> TRUE,
      prompt_chars |-> 400, vendor_ok |-> TRUE,
      resp |-> [prompt_tokens |-> 100, completion_tokens |-> 50,
                total_tokens |-> 0, text_chars |-> 0] ],
    [ provider |-> "Anthropic", model |-> "claude-3-opus-latest", key |-> TRUE,
      prompt_chars |-> 6, vendor_ok |-> FALSE,
      resp |-> [prompt_tokens |-> 0, completion_tokens |-> 0,
                total_tokens |-> 0, text_chars |-> 0] ],
    [ provider |-> "OpenAI", model |-> "gpt-4", key |-> FALSE,
      prompt_chars |-> 6, vendor_ok |-> TRUE,
      resp |-> [prompt_tokens |-> 1, completion_tokens |-> 3,
                total_tokens |-> 5, text_chars |-> 0] ],
    [ provider |-> "Gemini", model |-> "gemini-2", key |-> TRUE,
      prompt_chars |-> 6, vendor_ok |-> TRUE,
      resp |-> [prompt_tokens |-> 1, completion_tokens |-> 3,
                total_tokens |-> 5, text_chars |-> 0] ] }

\* What "await self.get_llm_response(...)" gives run_async for a submission:
\* the result generate_response returns on the adapter built for it, or the
\* exception that leaves get_llm_response.
ChatOutcome(in, uuid) ==
  IF in.provider = "Gemini"
    THEN [raised |-> TRUE, cause |-> "TypeError"]
  ELSE
    LET llm == BaseLLMInit(AdapterOf(in.provider), in.key, in.model, FALSE,
                           FALSE, uuid)
    IN  IF llm.status # "ready" \/ ~in.vendor_ok
          THEN [raised |-> TRUE, cause |-> "LLMException"]
          ELSE AfterVendor(llm, [NoCall EXCEPT !.prompt_chars = in.prompt_chars],
                           in.resp, 1)

\* The sums of total_tokens and of total_cost over history entries.
RECURSIVE HistoryTotals(_)
HistoryTotals(entries) ==
  IF entries = <<>> THEN [tokens |-> 0, cost |-> 0]
  ELSE LET rest == HistoryTotals(Tail(entries))
       IN  [ tokens |-> rest.tokens + Head(entries).total_tokens,
             cost |-> rest.cost + Head(entries).total_cost ]

\* A chat submission whose session totals are read off the history buffer.
ChatSubmit_fromhistory ==
  \E in \in ChatInputs :
    /\ app.pc \in {"idle", "done"}
    /\ app.invocations < MaxSubmissions
    /\ LET out == ChatOutcome(in, uuidCount + 1)
           now == Len(stored) + 1
       IN  /\ uuidCount' = IF in.provider = "Gemini" THEN uuidCount
                           ELSE uuidCount + 1
           /\ IF out.raised
                THEN /\ app' = AppDone("raised", out.cause)
                     /\ UNCHANGED <<llm_history, stored, session_state>>
                ELSE /\ app' = AppDone("result", "none")
                     /\ llm_history' = store_llm_call(llm_history, in.prompt_chars,
                                                      out.result, now)
                     /\ stored' = Append(stored,
                          Head(store_llm_call(<<>>, in.prompt_chars, out.result,
                                              now)))
                     /\ session_state' =
                          [ total_tokens |-> HistoryTotals(llm_history').tokens,
                            total_cost |-> HistoryTotals(llm_history').cost,
                            response_times |->
                              Append(session_state.response_times,
                                     out.result.metadata.performance.response_time) ]
    /\ UNCHANGED <<inst, calls, returned, observed>>

\* run_async for one prompt of the chat input, from the submission to the end
\* of the script run: get_llm_response builds an adapter and awaits
\* generate_response; an exception leaves run_async before it touches the
\* session state, a result is stored in the history and added to the session
\* totals.  The adapter is local to get_llm_response and is gone afterwards.
\* The clock is the number of the store.
ChatSubmit ==
  \E in \in ChatInputs :
    /\ app.pc \in {"idle", "done"}
    /\ app.invocations < MaxSubmissions
    /\ LET out == ChatOutcome(in, uuidCount + 1)
           now == Len(stored) + 1
       IN  /\ uuidCount' = IF in.provider = "Gemini" THEN uuidCount
                           ELSE uuidCount + 1
           /\ IF out.raised
                THEN /\ app' = AppDone("raised", out.cause)
                     /\ UNCHANGED <<llm_history, stored, session_state>>
                ELSE /\ app' = AppDone("result", "none")
                     /\ llm_history' = store_llm_call(llm_history, in.prompt_chars,
                                                      out.result, now)
                     /\ stored' = Append(stored,
                          Head(store_llm_call(<<>>, in.prompt_chars, out.result,
                                              now)))
                     /\ session_state' =
                          [ total_tokens |->
                              session_state.total_tokens
                                + out.result.metadata.tokens.total_tokens,
                            total_cost |->
                              session_state.total_cost
                                + out.result.metadata.costs.total_cost,
                            response_times |->
                              Append(session_state.response_times,
                                     out.result.metadata.performance.response_time) ]
    /\ UNCHANGED <<inst, calls, returned, observed>>

\* initialize_session_state
InitUI ==
  /\ inst = <<>>
  /\ calls = <<>>
  /\ uuidCount = 0
  /\ returned = <<>>
  /\ llm_history = <<>>
  /\ stored = <<>>
  /\ observed = NoInfo
  /\ app = NoApp
  /\ session_state = NoSession

NextUI == ChatSubmit

SpecUI == InitUI /\ [][NextUI]_vars

(***************************************************************************)
(* Properties                                                              *)
(***************************************************************************)
CountersAreSums ==
  \A i \in DOMAIN inst :
    /\ inst[i].total_requests = returned[i].results
    /\ inst[i].total_tokens = returned[i].tokens
    /\ inst[i].total_cost = returned[i].cost

CountersNeverDecrease ==
  \A i \in DOMAIN inst :
    /\ inst'[i].total_tokens >= inst[i].total_tokens
    /\ inst'[i].total_cost >= inst[i].total_cost

\* C1: on every adapter instance the cumulative total_tokens and total_cost
\* never decrease, and at all times total_requests, total_tokens and
\* total_cost are the number of results the instance has returned and the
\* sums of their metadata.tokens.total_tokens and metadata.costs.total_cost.
C1_CumulativeCounters ==
  []CountersAreSums /\ [][CountersNeverDecrease]_vars

\* An instance that has returned two results with a positive token and cost total.
C1_Witness ==
  \E i \in DOMAIN inst :
    /\ inst[i].total_requests = 2
    /\ inst[i].total_tokens > 0
    /\ inst[i].total_cost > 0

C3_ExhaustedBudget ==
  \A c \in DOMAIN calls :
    /\ calls[c].vendor_calls <= RetryAttempts
    /\ (calls[c].pc = "raised" /\ calls[c].cause = "provider")
         => /\ calls[c].vendor_calls = RetryAttempts
            /\ calls[c].failures = RetryAttempts
            /\ calls[c].error = "LLMException"
            /\ ~calls[c].vendor_ok
    /\ calls[c].failures = RetryAttempts
         => calls[c].pc = "raised" /\ calls[c].error = "LLMException"

\* A call whose three attempts all failed with the provider's error.
C3_Witness ==
  \E c \in DOMAIN calls :
    /\ calls[c].pc = "raised"
    /\ calls[c].cause = "provider"
    /\ calls[c].failures = RetryAttempts

C5_HistoryBounded == Len(llm_history) <= HistoryCap

\* More calls stored than the buffer holds, and the buffer full.
C5_Witness == Len(stored) > HistoryCap /\ Len(llm_history) = HistoryCap

Min(a, b) == IF a < b THEN a ELSE b

\* C6: after n stores the buffer holds exactly the last min(n, HistoryCap)
\* stored entries, in the order they were stored.
C6_HistoryFIFO ==
  LET n == Len(stored)
  IN  llm_history = SubSeq(stored, n - Min(n, HistoryCap) + 1, n)

\* After the 11th store the 1st entry is gone and entries 2..11 remain.
C6_Witness ==
  /\ Len(stored) = HistoryCap + 1
  /\ \A k \in DOMAIN llm_history : llm_history[k] # stored[1]
  /\ llm_history = SubSeq(stored, 2, HistoryCap + 1)

Constructed == {i \in DOMAIN inst : inst[i].status # "none"}

\* C7: constructing an adapter with no API key and no ambient credential
\* source fails with LLMException, no vendor client has been created for it
\* and no generate_response call runs on it.
C7_NoCredentialFails ==
  \A i \in Constructed :
    (~inst[i].api_key /\ ~inst[i].ambient)
    => /\ inst[i].status = "failed"
       /\ inst[i].error = "LLMException"
       /\ inst[i].client = "none"
       /\ \A c \in DOMAIN calls : calls[c].inst # i

\* An OpenAI construction with a supported model and no credentials failed.
C7_Witness ==
  \E i \in Constructed :
    /\ inst[i].provider = "openai"
    /\ ~inst[i].api_key /\ ~inst[i].ambient
    /\ inst[i].arg_model \in SupportedModels("openai")
    /\ inst[i].status = "failed"

Unsupported(i) ==
  /\ inst[i].arg_model # NoModel
  /\ inst[i].arg_model \notin SupportedModels(inst[i].provider)

\* C8: for every provider, a construction with a model name outside the
\* provider's supported list fails with LLMException, and every adapter whose
\* construction succeeded has a supported model.
C8_UnsupportedModelFails ==
  \A i \in Constructed :
    /\ Unsupported(i) => inst[i].status = "failed" /\ inst[i].error = "LLMException"
    /\ inst[i].status = "ready" => inst[i].model \in SupportedModels(inst[i].provider)

\* Two constructions of different providers, each with full credentials and
\* an unsupported model name, have failed.
C8_Witness ==
  \E i, j \in Constructed :
    /\ inst[i].provider = "openai" /\ inst[j].provider = "gemini"
    /\ inst[i].api_key /\ Unsupported(i) /\ inst[i].status = "failed"
    /\ inst[j].api_key /\ inst[j].ambient /\ inst[j].gcp_settings
    /\ Unsupported(j) /\ inst[j].status = "failed"

\* The credentials and settings that the provider's setup asks for are there.
ValidCredentials(i) ==
  /\ inst[i].api_key
  /\ inst[i].provider = "gemini" => inst[i].ambient /\ inst[i].gcp_settings

\* C9: for every provider, constructing an adapter with valid credentials
\* and no model name succeeds and selects a model of the supported list.
C9_DefaultModelSupported ==
  \A i \in Constructed :
    (ValidCredentials(i) /\ inst[i].arg_model = NoModel)
    => /\ inst[i].status = "ready"
       /\ inst[i].model \in SupportedModels(inst[i].provider)

\* C10: construction fails for missing credentials only when neither an API
\* key nor an ambient credential source is present: a Gemini adapter given
\* the ambient credentials and a supported model, but no API key, is
\* constructed successfully.
C10_AmbientCredentialAccepted ==
  \A i \in Constructed :
    ( /\ inst[i].provider = "gemini"
      /\ ~inst[i].api_key
      /\ inst[i].ambient /\ inst[i].gcp_settings
      /\ inst[i].arg_model \in SupportedModels("gemini") )
    => inst[i].status = "ready"

\* C11: in every result returned by generate_response, for every provider,
\* metadata.tokens.total_tokens is prompt_tokens + completion_tokens, whatever
\* counts the vendor response reports.
C11_TotalIsSumOfParts ==
  \A c \in DOMAIN calls :
    calls[c].pc = "returned"
    => LET tokens == calls[c].result.metadata.tokens
       IN  tokens.total_tokens = tokens.prompt_tokens + tokens.completion_tokens

\* The two parts of a costs dict, under either provider's key names.
InputCost(costs) ==
  IF "prompt_cost" \in DOMAIN costs THEN costs.prompt_cost ELSE costs.input_cost

OutputCost(costs) ==
  IF "completion_cost" \in DOMAIN costs
    THEN costs.completion_cost ELSE costs.output_cost

Abs(x) == IF x < 0 THEN 0 - x ELSE x

\* C12: in every returned result the reported total_cost differs from the
\* reported input cost plus the reported output cost by at most the rounding
\* to 6 decimal places, one micro-dollar, for all token counts and all rates
\* of the table.
C12_TotalCostIsSumWithinRounding ==
  \A c \in DOMAIN calls :
    calls[c].pc = "returned"
    => LET costs == calls[c].result.metadata.costs
       IN  Abs(costs.total_cost - (InputCost(costs) + OutputCost(costs))) <= 1

\* A returned result whose total_cost is not exactly the sum of its two
\* rounded parts, and one with a positive cost whose total is exactly the sum.
C12_Witness ==
  \E c \in DOMAIN calls :
    /\ calls[c].pc = "returned"
    /\ LET costs == calls[c].result.metadata.costs
       IN  /\ costs.total_cost > 0
           /\ costs.total_cost # InputCost(costs) + OutputCost(costs)

\* The adapter of call c has both rates in the cost table.
HasRates(c) ==
  {"input", "output"} \subseteq
    DOMAIN get_model_cost(inst[calls[c].inst].provider, inst[calls[c].inst].model)

\* C13: when the measured response_time of a successful vendor call is
\* exactly 0, generate_response does not fail on the division: it returns a
\* result that has a tokens_per_second value.
C13_ZeroResponseTimeReturns ==
  \A c \in DOMAIN calls :
    (calls[c].vendor_ok /\ HasRates(c) /\ calls[c].slept + calls[c].latency = 0)
    => /\ calls[c].pc = "returned"
       /\ "tokens_per_second" \in DOMAIN calls[c].result.metadata.performance

\* A construction that succeeded in this step leaves the new adapter with
\* zero counters and a session id that no other created adapter has.
FreshAfterConstruction ==
  \A i \in DOMAIN inst :
    (inst[i].status = "none" /\ inst'[i].status = "ready")
    => /\ inst'[i].total_requests = 0
       /\ inst'[i].total_tokens = 0
       /\ inst'[i].total_cost = 0
       /\ \A j \in DOMAIN inst \ {i} :
            inst'[j].status # "none"
            => inst'[j].session_id # inst'[i].session_id

\* C14: immediately after a successful construction the adapter's counters
\* total_requests, total_tokens and total_cost are all zero and its session
\* id differs from the session id of every other adapter instance created.
C14_FreshSessionAndCounters == [][FreshAfterConstruction]_vars

\* Two adapters constructed successfully, with different session ids, one
\* that has served a request and one with zero counters.
C14_Witness ==
  \E i, j \in Constructed :
    /\ i # j
    /\ inst[i].status = "ready" /\ inst[j].status = "ready"
    /\ inst[i].session_id # inst[j].session_id
    /\ inst[i].total_requests > 0
    /\ inst[j].total_requests = 0 /\ inst[j].total_tokens = 0
    /\ inst[j].total_cost = 0

\* A step of a generate_response call leaves every adapter other than the
\* call's own as it was.
OtherAdaptersUnchanged ==
  \A c \in DOMAIN calls :
    calls'[c] # calls[c]
    => \A j \in DOMAIN inst \ {calls'[c].inst} :
         /\ inst'[j].session_id = inst[j].session_id
         /\ inst'[j].total_requests = inst[j].total_requests
         /\ inst'[j].total_tokens = inst[j].total_tokens
         /\ inst'[j].total_cost = inst[j].total_cost

\* C15: a generate_response call on one adapter instance leaves the session
\* id and the cumulative counters of every other adapter instance unchanged.
C15_IndependentTrackers == [][OtherAdaptersUnchanged]_vars

\* Two adapters that have each returned one result, with different totals;
\* the call that returned last ran on the first of them.
C15_Witness ==
  \E i, j \in Constructed, c \in DOMAIN calls :
    /\ i # j
    /\ calls[c].pc = "returned" /\ calls[c].inst = i
    /\ inst[i].total_requests = 1 /\ inst[j].total_requests = 1
    /\ inst[i].total_tokens # inst[j].total_tokens
    /\ inst[j].total_tokens = returned[j].tokens

\* A step in which an info call hands a dict to its caller leaves the
\* counters, session id, model and vendor client of every adapter as they were.
InfoCallChangesNothing ==
  observed' # observed
  => \A i \in DOMAIN inst :
       /\ inst'[i].total_requests = inst[i].total_requests
       /\ inst'[i].total_tokens = inst[i].total_tokens
       /\ inst'[i].total_cost = inst[i].total_cost
       /\ inst'[i].session_id = inst[i].session_id
       /\ inst'[i].model = inst[i].model
       /\ inst'[i].client = inst[i].client

\* C16: get_model_info and get_session_info have no side effects: a call of
\* either leaves total_requests, total_tokens, total_cost, session id, model
\* and the vendor client unchanged.
C16_InfoHasNoSideEffects == [][InfoCallChangesNothing]_vars

\* get_model_info has been called on an adapter that has returned a result,
\* and the adapter's counters are still those of that one result.
C16_Witness ==
  /\ observed.kind = "model_info"
  /\ observed.value.session_info.metrics.total_requests = 1
  /\ inst[observed.of].total_requests = 1
  /\ inst[observed.of].total_tokens = returned[observed.of].tokens
  /\ inst[observed.of].client = "open"

\* C17: for every provider, whenever get_llm_response has constructed an
\* adapter, the adapter's cleanup has been invoked by the time
\* get_llm_response has returned or raised.
C17_TeardownOnEveryExit ==
  (app.pc = "done" /\ app.llm # 0) => app.cleanups >= 1

\* C18: every failure inside generate_response (the vendor's error on the
\* last attempt, an exception the retry loop does not catch, a missing cost
\* rate, a division by zero, a malformed result) ends the call with
\* LLMException and nothing else, and no call with such a failure returns.
C18_OnlyLLMExceptionEscapes ==
  \A c \in DOMAIN calls :
    /\ calls[c].pc = "raised" <=> calls[c].cause # "none"
    /\ calls[c].pc = "raised" => calls[c].error = "LLMException"
    /\ calls[c].pc # "raised" => calls[c].error = "none"
    /\ calls[c].failures = RetryAttempts => calls[c].pc = "raised"
    /\ calls[c].pc = "returned"
         => /\ calls[c].vendor_ok
            /\ HasRates(c)
            /\ calls[c].slept + calls[c].latency > 0
            /\ validate_response(calls[c].result)

\* A call whose vendor call succeeded and that failed on the missing cost
\* rate has raised LLMException.
C18_Witness ==
  \E c \in DOMAIN calls :
    /\ calls[c].pc = "raised"
    /\ calls[c].vendor_ok
    /\ calls[c].cause = "KeyError"
    /\ calls[c].error = "LLMException"

InFlight == calls[1].pc \in {"vendor", "sleeping"}

Terminated == calls[1].pc \in {"returned", "raised"}

\* C20: provided every vendor call eventually returns or raises, every
\* generate_response call eventually terminates, by returning a result or by
\* raising, and never makes more than RetryAttempts vendor calls.
C20_CallTerminates ==
  /\ [](calls[1].vendor_calls <= RetryAttempts)
  /\ InFlight ~> Terminated

\* A call that returned a result from its last permitted vendor call, after
\* both backoff sleeps.
C20_Witness ==
  /\ calls[1].pc = "returned"
  /\ calls[1].vendor_calls = RetryAttempts
  /\ calls[1].failures = RetryAttempts - 1
  /\ calls[1].slept = Pow2(RetryAttempts - 1) - 1

\* C21: every successful result of the three adapters carries the cost
\* breakdown under input_cost, output_cost and total_cost and has the same
\* set of metadata fields.
C21_UniformMetadataShape ==
  \A c \in DOMAIN calls :
    calls[c].pc = "returned"
    => /\ DOMAIN calls[c].result.metadata =
            {"model", "tokens", "costs", "performance", "session_info",
             "completion_info"}
       /\ DOMAIN calls[c].result.metadata.costs =
            {"input_cost", "output_cost", "total_cost"}

\* When attempt number k is the current one the call has slept
\* 2^0 + ... + 2^(k-1) seconds; the sleep after attempt k is counted when it ends.
SleptBeforeAttempt ==
  \A c \in DOMAIN calls :
    /\ calls[c].attempt < RetryAttempts
    /\ calls[c].slept = Pow2(calls[c].attempt) - 1

\* The steps of a call: a sleep starts only after a failed attempt that is
\* not the last, lasts 2^attempt and leads to the next attempt; a call that
\* raises does so without sleeping.
SleepOnlyBetweenAttempts ==
  \A c \in DOMAIN calls :
    /\ calls'[c].pc = "sleeping" /\ calls[c].pc # "sleeping"
         => /\ calls[c].pc = "vendor"
            /\ calls'[c].failures = calls[c].failures + 1
            /\ calls[c].attempt < RetryAttempts - 1
            /\ calls'[c].slept = calls[c].slept
    /\ calls[c].pc = "sleeping" /\ calls'[c] # calls[c]
         => /\ calls'[c].pc = "vendor"
            /\ calls'[c].attempt = calls[c].attempt + 1
            /\ calls'[c].slept = calls[c].slept + Pow2(calls[c].attempt)
    /\ calls[c].pc = "vendor" /\ calls'[c].pc \in {"raised", "returned"}
         => calls'[c].slept = calls[c].slept

\* C22: backoff sleeps happen only between attempts: after the failed attempt
\* i that is not the last of the budget the call sleeps exactly 2^i seconds
\* before attempt i+1, and after the final failed attempt the error is
\* raised with no further sleep.
C22_BackoffOnlyBetweenAttempts ==
  []SleptBeforeAttempt /\ [][SleepOnlyBetweenAttempts]_vars

\* A call in its second backoff sleep, the first sleep of one second done.
C22_Witness ==
  \E c \in DOMAIN calls :
    /\ calls[c].pc = "sleeping"
    /\ calls[c].attempt = 1
    /\ calls[c].failures = 2
    /\ calls[c].slept = 1

\* C23: a construction that fails leaves no partial state behind: when it
\* fails, and in particular when it fails on an unsupported model name, no
\* vendor client has been created and left open.
C23_FailedConstructionLeavesNoClient ==
  \A i \in Constructed :
    inst[i].status = "failed" => inst[i].client = "none"

\* A step in which the log record of a call fails to be emitted: the call
\* returns its result and the adapter's counters have grown by its values.
LogFailureDoesNotAbort ==
  \A c \in DOMAIN calls :
    (calls'[c].log_error /\ calls'[c] # calls[c])
    => LET i == calls'[c].inst
       IN  /\ calls'[c].pc = "returned"
           /\ validate_response(calls'[c].result)
           /\ inst'[i].total_requests = inst[i].total_requests + 1
           /\ inst'[i].total_tokens = inst[i].total_tokens
                + calls'[c].result.metadata.tokens.total_tokens
           /\ inst'[i].total_cost = inst[i].total_cost
                + calls'[c].result.metadata.costs.total_cost

\* C24: a failure while emitting the interaction log record does not abort an
\* otherwise successful generation: generate_response still returns the
\* result, and the cumulative counters already include that call's tokens
\* and cost.
C24_LogFailureDoesNotAbort == [][LogFailureDoesNotAbort]_vars

\* The second result of an adapter returned although its log record failed;
\* the counters count both calls.
C24_Witness ==
  \E c \in DOMAIN calls :
    /\ calls[c].pc = "returned"
    /\ calls[c].log_error
    /\ inst[calls[c].inst].total_requests = 2
    /\ inst[calls[c].inst].total_tokens = returned[calls[c].inst].tokens
    /\ inst[calls[c].inst].total_tokens
         > calls[c].result.metadata.tokens.total_tokens

\* micro is amount (nano-dollars) rounded to 6 decimals: the nearest whole
\* number of micro-dollars.
IsRounded6(micro, amount) ==
  /\ 1000 * micro - amount <= 500
  /\ amount - 1000 * micro <= 500

\* C25: in every successful result the input cost is prompt_tokens / 1000
\* times the model's input rate and the output cost is completion_tokens /
\* 1000 times the output rate, each rounded to 6 decimals; rates 0.0005 and
\* 0.0015 with 100 prompt and 50 completion tokens give 0.00005, 0.000075
\* and total 0.000125.
C25_CostsAreTokensTimesRates ==
  \A c \in DOMAIN calls :
    calls[c].pc = "returned"
    => LET md == calls[c].result.metadata
           rates == MODEL_COSTS[inst[calls[c].inst].provider][md.model]
       IN  /\ IsRounded6(InputCost(md.costs),
                         md.tokens.prompt_tokens * rates.input)
           /\ IsRounded6(OutputCost(md.costs),
                         md.tokens.completion_tokens * rates.output)
           /\ ( /\ rates = [input |-> 500, output |-> 1500]
                /\ md.tokens.prompt_tokens = 100
                /\ md.tokens.completion_tokens = 50 )
              => /\ InputCost(md.costs) = 50
                 /\ OutputCost(md.costs) = 75
                 /\ md.costs.total_cost = 125

\* The example has been returned: gpt-3.5-turbo, 100 and 50 tokens.
C25_Witness ==
  \E c \in DOMAIN calls :
    /\ calls[c].pc = "returned"
    /\ calls[c].result.metadata.model = "gpt-3.5-turbo"
    /\ calls[c].result.metadata.tokens.prompt_tokens = 100
    /\ calls[c].result.metadata.tokens.completion_tokens = 50
    /\ calls[c].result.metadata.costs.total_cost = 125

\* Every step of a call other than its successful return, the raising steps
\* included, leaves the call's adapter as it was.
OnlyReturnChangesAdapter ==
  \A c \in DOMAIN calls :
    (calls'[c] # calls[c] /\ calls'[c].pc # "returned")
    => LET i == calls'[c].inst
       IN  /\ inst'[i].total_requests = inst[i].total_requests
           /\ inst'[i].total_tokens = inst[i].total_tokens
           /\ inst'[i].total_cost = inst[i].total_cost
           /\ inst'[i].session_id = inst[i].session_id
           /\ inst'[i].model = inst[i].model

RequestsAreReturnedResults ==
  \A i \in DOMAIN inst : inst[i].total_requests = returned[i].results

\* C26: a generate_response call that ends in a failure leaves the adapter's
\* total_requests, total_tokens, total_cost, session id and model exactly as
\* they were before the call; only successful calls are counted as requests.
C26_FailedCallChangesNothing ==
  []RequestsAreReturnedResults /\ [][OnlyReturnChangesAdapter]_vars

\* A call that failed after two backoff sleeps on an adapter that had
\* returned one result before: the adapter still counts one request.
C26_Witness ==
  \E c \in DOMAIN calls :
    /\ calls[c].pc = "raised"
    /\ calls[c].slept > 0
    /\ inst[calls[c].inst].total_requests = 1
    /\ inst[calls[c].inst].total_tokens = returned[calls[c].inst].tokens
    /\ inst[calls[c].inst].total_tokens > 0

\* C27: the session snapshot embedded in a result is taken before the
\* counters are updated for that call: in the result of the n-th successful
\* call on an instance session_info.metrics.total_requests is n-1, and its
\* totals lag get_session_info() called right after the return by exactly
\* that call's tokens and cost.
C27_SnapshotLagsByOneCall ==
  \A c \in DOMAIN calls :
    calls[c].pc = "returned"
    => LET md == calls[c].result.metadata
           before == md.session_info
           after == get_session_info(inst[calls[c].inst])
       IN  /\ before.session_id = after.session_id
           /\ before.metrics.total_requests
                = returned[calls[c].inst].results - 1
           /\ after.metrics.total_requests = before.metrics.total_requests + 1
           /\ after.metrics.total_tokens
                = before.metrics.total_tokens + md.tokens.total_tokens
           /\ after.metrics.total_cost
                = before.metrics.total_cost + md.costs.total_cost

\* The second result of an adapter: its snapshot shows the first call only.
C27_Witness ==
  \E c \in DOMAIN calls :
    /\ calls[c].pc = "returned"
    /\ calls[c].result.metadata.session_info.metrics.total_requests = 1
    /\ calls[c].result.metadata.session_info.metrics.total_tokens > 0
    /\ inst[calls[c].inst].total_requests = 2

\* Number, token sum and cost sum of the results held by the call slots S.
RECURSIVE ReturnedTotals(_)
ReturnedTotals(S) ==
  IF S = {} THEN NoneReturned
  ELSE LET c == CHOOSE d \in S : TRUE
           rest == ReturnedTotals(S \ {c})
       IN  IF calls[c].pc # "returned" THEN rest
           ELSE [ results |-> rest.results + 1,
                  tokens |-> rest.tokens
                    + calls[c].result.metadata.tokens.total_tokens,
                  cost |-> rest.cost
                    + calls[c].result.metadata.costs.total_cost ]

\* C28: when several generate_response calls run concurrently on one adapter,
\* interleaving at their awaits, no counter update is lost: at all times, and
\* so once all calls have finished, total_requests is the number of calls
\* that have returned and total_tokens and total_cost are the sums of their
\* per-call values.
C28_NoLostUpdate ==
  \A i \in DOMAIN inst :
    LET done == ReturnedTotals({c \in DOMAIN calls : calls[c].inst = i})
    IN  /\ inst[i].total_requests = done.results
        /\ inst[i].total_tokens = done.tokens
        /\ inst[i].total_cost = done.cost

\* Two calls on one adapter have overlapped and both returned: the call that
\* started first returned last, after a retry.
C28_Witness ==
  /\ calls[1].pc = "returned" /\ calls[2].pc = "returned"
  /\ calls[1].inst = calls[2].inst
  /\ calls[1].failures > 0
  /\ calls[1].result.metadata.session_info.metrics.total_requests = 1
  /\ calls[2].result.metadata.session_info.metrics.total_requests = 0
  /\ inst[calls[1].inst].total_requests = 2

\* C29: get_llm_response either returns a result that has both response and
\* metadata or raises; it never completes normally without a result.
C29_ReturnsResultOrRaises ==
  app.pc = "done"
  => \/ app.outcome = "raised"
     \/ app.outcome = "result" /\ validate_response(calls[1].result)

\* C30: in a UI session the session totals are the sums over every successful
\* generation ever stored, evicted ones included (total_tokens, total_cost,
\* and one response time per success), and a submission that fails changes
\* neither the totals nor the history.
SessionTotalsAreSums ==
  /\ session_state.total_tokens = HistoryTotals(stored).tokens
  /\ session_state.total_cost = HistoryTotals(stored).cost
  /\ Len(session_state.response_times) = Len(stored)

FailedSubmissionChangesNothing ==
  app'.invocations = app.invocations + 1 /\ app'.outcome # "result"
  => UNCHANGED <<session_state, llm_history, stored>>

SuccessfulSubmissionIsCounted ==
  app'.invocations = app.invocations + 1 /\ app'.outcome = "result"
  => Len(stored') = Len(stored) + 1

C30_SessionTotalsAreSums ==
  /\ []SessionTotalsAreSums
  /\ [][FailedSubmissionChangesNothing /\ SuccessfulSubmissionIsCounted]_vars

\* More successes than the history buffer holds, and a failure as the last
\* submission.
C30_Witness ==
  /\ Len(stored) > HistoryCap
  /\ Len(llm_history) = HistoryCap
  /\ session_state.total_tokens > HistoryTotals(llm_history).tokens
  /\ app.pc = "done"
  /\ app.outcome = "raised"
  /\ app.invocations > Len(stored)

====
